---- MODULE Spec2Model ----
(***************************************************************************)
(* Model of unpaper's file.c: loadImage, saveImage and saveDebug.          *)
(*                                                                         *)
(* Every libav call of the source is one step of the program counter pc.   *)
(* A library call that can fail either succeeds or returns one of the      *)
(* error codes of ErrCodes; errOutput() prints the message and terminates  *)
(* the process (pc = "fatal"), running none of the code after it.          *)
(* held / released record the handles the calls acquire and release.       *)
(***************************************************************************)
EXTENDS Integers, Sequences, FiniteSets, TLC

\* ------------------------------------------------------------- bounds
MaxW == 2          \* largest decoded frame width
MaxH == 2          \* largest decoded frame height
MaxPad == 1        \* largest row padding: linesize[0] - width
MaxStreams == 2    \* largest number of streams in the container

\* ------------------------------------------------------------- constants
VERBOSE_NORMAL == 1
VERBOSE_MORE == 2
VERBOSE_DEBUG_SAVE == 4
VerboseLevels == {VERBOSE_NORMAL, VERBOSE_MORE, VERBOSE_DEBUG_SAVE}

\* pixel formats (enum AVPixelFormat); "NONE" is AV_PIX_FMT_NONE, the format
\* of a frame that av_frame_alloc() made and no decoder filled
AV_PIX_FMT_NONE == "NONE"
AV_PIX_FMT_RGB24 == "RGB24"
AV_PIX_FMT_GRAY8 == "GRAY8"
AV_PIX_FMT_Y400A == "Y400A"
AV_PIX_FMT_MONOBLACK == "MONOBLACK"
AV_PIX_FMT_MONOWHITE == "MONOWHITE"
AV_PIX_FMT_PAL8 == "PAL8"
AV_PIX_FMT_YUV420P == "YUV420P"

\* the formats a decoder may deliver / a caller may request
PixFmts == {AV_PIX_FMT_RGB24, AV_PIX_FMT_GRAY8, AV_PIX_FMT_Y400A,
            AV_PIX_FMT_MONOBLACK, AV_PIX_FMT_MONOWHITE, AV_PIX_FMT_PAL8,
            AV_PIX_FMT_YUV420P}

\* codec ids (enum AVCodecID); NoCodec is the -1 that output_codec starts with
NoCodec == "-1"
AV_CODEC_ID_PPM == "PPM"
AV_CODEC_ID_PGM == "PGM"
AV_CODEC_ID_PBM == "PBM"

\* AVERROR codes a failing library call may return: ENOENT, EOF, INVALIDDATA
ErrCodes == {-2, -541478725, -1094995529}

\* av_strerror(ret, errbuff, ...): the text of an error code
StrError(ret) ==
  CASE ret = -2 -> "No such file or directory"
    [] ret = -541478725 -> "End of file"
    [] ret = -1094995529 -> "Invalid data found when processing input"
    [] OTHER -> "Error number occurred"

\* return values of a library call: 0 on success, or a negative error
Rets == {0} \cup ErrCodes

\* ------------------------------------------------------------- pixel data
\* sample bytes used in index planes: the two ends of the uint8_t range and
\* one value between them
IndexVals == {0, 128, 255}

\* a palette is 256 ARGB entries <<a, r, g, b>>
PalGray == [i \in 0..255 |-> <<255, i, i, i>>]
PalColor == [i \in 0..255 |-> <<0, 255 - i, i \div 2, i>>]
Palettes == {PalGray, PalColor}
NoPalette == <<>>

Area(w, h) == (0..(w - 1)) \X (0..(h - 1))

Range(q) == {q[i] : i \in DOMAIN q}

WHITE == <<255, 255, 255>>

NullFrame == [state |-> "null", width |-> 0, height |-> 0,
              format |-> AV_PIX_FMT_NONE, data |-> <<>>]

\* av_frame_alloc(): an empty frame, format AV_PIX_FMT_NONE
EmptyDecoded == [width |-> 0, height |-> 0, format |-> AV_PIX_FMT_NONE,
                 linesize |-> 0, data0 |-> <<>>, data1 |-> NoPalette]

VARIABLES
  verbose,      \* the process-wide verbosity level
  pc,           \* position of the program
  errmsg,       \* <<format string, detail>> printed by errOutput, or <<>>
  failPoint,    \* the step whose errOutput ended the process, or "none"
  held,         \* handles acquired and not released
  released,     \* handles released
  got_frame,    \* loadImage: got_frame as set by avcodec_decode_video2
  frame,        \* loadImage: the decoded AVFrame
  px, py,       \* loadImage: x and y of the palette loop
  writes,       \* loadImage: number of setPixel writes per position
  heap,         \* the AVFrames "image" (the caller's) and "copy"
  caller,       \* "none", or the entry point the pipeline called after the load
  fmtArg,       \* saveImage: outputPixFmt as the caller passed it
  outputPixFmt, \* saveImage: the parameter, as the switch rewrites it
  output_codec, \* saveImage: the codec id the switch chose
  output,       \* saveImage: the frame output points to, "image" or "copy"
  inputAtCall,  \* saveImage: the caller's image at the time of the call
  encoded,      \* saveImage: the frame handed to avcodec_encode_video2
  wf_ret,       \* saveImage: what av_write_frame returned (not stored by the code)
  written       \* the sections written to the destination file, in order

loadVars == <<got_frame, frame, px, py, writes>>
saveVars == <<caller, fmtArg, outputPixFmt, output_codec, output, inputAtCall,
              encoded, wf_ret, written>>
vars == <<verbose, pc, errmsg, failPoint, held, released, got_frame, frame,
          px, py, writes, heap, caller, fmtArg, outputPixFmt, output_codec,
          output, inputAtCall, encoded, wf_ret, written>>

\* ------------------------------------------------------------- helpers
\* the format string of each errOutput call of loadImage and saveImage
ErrFmt(point) ==
  CASE point = "load_alloc" ->
         "cannot allocate a new context"
    [] point = "load_open_input" ->
         "unable to open file %s: %s"
    [] point = "load_nb_streams" ->
         "unable to open file %s: missing streams"
    [] point = "load_codec_type" ->
         "unable to open file %s: wrong stream"
    [] point = "load_copy_context" ->
         "cannot set the new context for %s: %s"
    [] point = "load_find_decoder" ->
         "unable to open file %s: unsupported format"
    [] point = "load_codec_open" ->
         "unable to open file %s: %s"
    [] point = "load_read_frame" ->
         "unable to open file %s: %s"
    [] point = "load_stream_index" ->
         "unable to open file %s: invalid stream."
    [] point = "load_decode" ->
         "unable to open file %s: %s"
    [] point = "load_pix_fmt" ->
         "unable to open file %s: unsupported pixel format"
    [] point = "save_guess_format" ->
         "could not find suitable output format."
    [] point = "save_alloc_context" ->
         "unable to allocate output context."
    [] point = "save_find_encoder" ->
         "output codec not found"
    [] point = "save_new_stream" ->
         "could not alloc output stream"
    [] point = "save_codec_open" ->
         "unable to open codec: %s"
    [] point = "save_avio_open" ->
         "could not open '%s'"
    [] point = "save_write_header" ->
         "error writing header to '%s'"
    [] point = "save_encode" ->
         "unable to write file %s: %s"

\* the errOutput calls that append av_strerror's text of the failed call
WithStrError == {"load_open_input", "load_copy_context", "load_codec_open",
                 "load_read_frame", "load_decode", "save_codec_open",
                 "save_encode"}

\* every message the errOutput call at point can print
Messages(point) ==
  IF point \in WithStrError
  THEN {<<ErrFmt(point), StrError(e)>> : e \in ErrCodes}
  ELSE {<<ErrFmt(point), "">>}

\* errOutput(fmt, ...): print the message and exit(1)
errOutput(point, detail) ==
  /\ pc' = "fatal"
  /\ errmsg' = <<ErrFmt(point), detail>>
  /\ failPoint' = point

\* initImage(&img, width, height, format, -1): a new frame filled with the
\* background colour
initImage(width, height, format) ==
  [state |-> "live", width |-> width, height |-> height, format |-> format,
   data |-> [p \in Area(width, height) |-> WHITE]]

\* setPixel(pixel, x, y, image): store the r, g, b bytes of pixel at (x, y);
\* positions outside the image are ignored
setPixel(pixel, x, y, img) ==
  IF x < 0 \/ x >= img.width \/ y < 0 \/ y >= img.height
  THEN img
  ELSE [img EXCEPT !.data[<<x, y>>] = <<pixel[2], pixel[3], pixel[4]>>]

\* frame->data[0][frame->linesize[0] * y + x]
PaletteIndexNoStride(f, x, y) == f.data0[f.width * y + x]
PaletteIndex(f, x, y) == f.data0[f.linesize * y + x]

\* the pixel grid seen through a frame's first plane (one sample per pixel)
FramePixels(f) ==
  [p \in Area(f.width, f.height) |->
     LET v == f.data0[f.linesize * p[2] + p[1]] IN <<v, v, v>>]

\* av_frame_clone(frame)
av_frame_clone(f) ==
  [state |-> "live", width |-> f.width, height |-> f.height,
   format |-> f.format, data |-> FramePixels(f)]

\* the cases of switch (frame->format) in loadImage
PassThroughWithPal8 == {AV_PIX_FMT_Y400A, AV_PIX_FMT_GRAY8, AV_PIX_FMT_RGB24,
                        AV_PIX_FMT_MONOBLACK, AV_PIX_FMT_MONOWHITE,
                        AV_PIX_FMT_PAL8}
PassThrough == {AV_PIX_FMT_Y400A, AV_PIX_FMT_GRAY8, AV_PIX_FMT_RGB24,
                AV_PIX_FMT_MONOBLACK, AV_PIX_FMT_MONOWHITE}

\* the handles the tail of loadImage releases
LoadCleanupNoClose == {"avctx_codec", "avctx"}
LoadCleanup == {"avctx_codec", "avctx", "s"}

ZeroWrites == [p \in Area(MaxW + 1, MaxH + 1) |-> 0]

Init ==
  /\ verbose \in VerboseLevels
  /\ pc = "load_alloc"
  /\ errmsg = <<>>
  /\ failPoint = "none"
  /\ held = {}
  /\ released = {}
  /\ got_frame = 0
  /\ frame = EmptyDecoded
  /\ px = 0
  /\ py = 0
  /\ writes = ZeroWrites
  /\ heap = [id \in {"image", "copy"} |-> NullFrame]
  /\ caller = "none"
  /\ fmtArg = AV_PIX_FMT_NONE
  /\ outputPixFmt = AV_PIX_FMT_NONE
  /\ output_codec = NoCodec
  /\ output = "image"
  /\ inputAtCall = NullFrame
  /\ encoded = NullFrame
  /\ wf_ret = 0
  /\ written = <<>>

\* ------------------------------------------------------------- loadImage
\* lines 32-39: avcodec_alloc_context3, av_frame_alloc
load_alloc ==
  /\ pc = "load_alloc"
  /\ \E ok \in BOOLEAN :
       IF ~ok
       THEN /\ errOutput("load_alloc", "")
            /\ held' = held \cup {"frame"}
       ELSE /\ pc' = "load_open_input"
            /\ held' = held \cup {"avctx", "frame"}
            /\ UNCHANGED <<errmsg, failPoint>>
  /\ UNCHANGED saveVars
  /\ UNCHANGED <<verbose, released, got_frame, frame, px, py, writes, heap>>

\* lines 41-45: avformat_open_input
load_open_input ==
  /\ pc = "load_open_input"
  /\ \E ret \in Rets :
       IF ret < 0
       THEN /\ errOutput("load_open_input", StrError(ret))
            /\ UNCHANGED held
       ELSE /\ pc' = "load_streams"
            /\ held' = held \cup {"s"}
            /\ UNCHANGED <<errmsg, failPoint>>
  /\ UNCHANGED saveVars
  /\ UNCHANGED <<verbose, released, got_frame, frame, px, py, writes, heap>>

\* lines 47-56: avformat_find_stream_info, av_dump_format, the stream checks
load_streams ==
  /\ pc = "load_streams"
  /\ \E nb_streams \in 0..MaxStreams, codec_type \in {"VIDEO", "AUDIO"} :
       IF nb_streams < 1
       THEN errOutput("load_nb_streams", "")
       ELSE IF codec_type # "VIDEO"
       THEN errOutput("load_codec_type", "")
       ELSE /\ pc' = "load_copy_context"
            /\ UNCHANGED <<errmsg, failPoint>>
  /\ UNCHANGED saveVars
  /\ UNCHANGED <<verbose, held, released, got_frame, frame, px, py, writes,
                 heap>>

\* lines 58-62: avcodec_copy_context
load_copy_context ==
  /\ pc = "load_copy_context"
  /\ \E ret \in Rets :
       IF ret < 0
       THEN errOutput("load_copy_context", StrError(ret))
       ELSE /\ pc' = "load_find_decoder"
            /\ UNCHANGED <<errmsg, failPoint>>
  /\ UNCHANGED saveVars
  /\ UNCHANGED <<verbose, held, released, got_frame, frame, px, py, writes,
                 heap>>

\* lines 64-66: avcodec_find_decoder
load_find_decoder ==
  /\ pc = "load_find_decoder"
  /\ \E found \in BOOLEAN :
       IF ~found
       THEN errOutput("load_find_decoder", "")
       ELSE /\ pc' = "load_codec_open"
            /\ UNCHANGED <<errmsg, failPoint>>
  /\ UNCHANGED saveVars
  /\ UNCHANGED <<verbose, held, released, got_frame, frame, px, py, writes,
                 heap>>

\* lines 68-72: avcodec_open2
load_codec_open ==
  /\ pc = "load_codec_open"
  /\ \E ret \in Rets :
       IF ret < 0
       THEN /\ errOutput("load_codec_open", StrError(ret))
            /\ UNCHANGED held
       ELSE /\ pc' = "load_read_frame"
            /\ held' = held \cup {"avctx_codec"}
            /\ UNCHANGED <<errmsg, failPoint>>
  /\ UNCHANGED saveVars
  /\ UNCHANGED <<verbose, released, got_frame, frame, px, py, writes, heap>>

\* lines 74-81: av_read_frame and the check of pkt.stream_index
load_read_frame ==
  /\ pc = "load_read_frame"
  /\ \E ret \in Rets, stream_index \in 0..(MaxStreams - 1) :
       IF ret < 0
       THEN errOutput("load_read_frame", StrError(ret))
       ELSE IF stream_index # 0
       THEN errOutput("load_stream_index", "")
       ELSE /\ pc' = "load_decode"
            /\ UNCHANGED <<errmsg, failPoint>>
  /\ UNCHANGED saveVars
  /\ UNCHANGED <<verbose, held, released, got_frame, frame, px, py, writes,
                 heap>>

\* the contents of a plane of n bytes: one byte a among bytes b, for every
\* position of the one byte (a = b gives the constant planes)
Planes(n) ==
  { [i \in 0..(n - 1) |-> IF i = k THEN a ELSE b] :
      k \in 0..(n - 1), a \in IndexVals, b \in IndexVals }

\* the frames a decoder can deliver
DecodedFrames ==
  UNION { UNION { UNION {
    { [width |-> w, height |-> h, format |-> fmt, linesize |-> w + pad,
       data0 |-> d0, data1 |-> NoPalette] :
        d0 \in Planes((w + pad) * h),
        fmt \in PixFmts \ {AV_PIX_FMT_PAL8} }
    \cup
    { [width |-> w, height |-> h, format |-> AV_PIX_FMT_PAL8,
       linesize |-> w + pad, data0 |-> d0, data1 |-> pal] :
        d0 \in Planes((w + pad) * h),
        pal \in Palettes }
    : pad \in 0..MaxPad } : h \in 1..MaxH } : w \in 1..MaxW }

\* lines 83-87: avcodec_decode_video2; got_frame is set and never read
load_decode ==
  /\ pc = "load_decode"
  /\ \E ret \in Rets, got \in {0, 1} :
       IF ret < 0
       THEN /\ errOutput("load_decode", StrError(ret))
            /\ UNCHANGED <<got_frame, frame>>
       ELSE /\ pc' = "load_classify"
            /\ got_frame' = got
            /\ IF got = 1
               THEN \E f \in DecodedFrames : frame' = f
               ELSE frame' = EmptyDecoded
            /\ UNCHANGED <<errmsg, failPoint>>
  /\ UNCHANGED saveVars
  /\ UNCHANGED <<verbose, held, released, px, py, writes, heap>>

\* lines 89-113: switch (frame->format)
load_classify ==
  /\ pc = "load_classify"
  /\ IF frame.format \in PassThrough
     THEN /\ heap' = [heap EXCEPT !["image"] = av_frame_clone(frame)]
          /\ pc' = "load_cleanup"
          /\ UNCHANGED <<errmsg, failPoint>>
     ELSE IF frame.format = AV_PIX_FMT_PAL8
     THEN /\ heap' = [heap EXCEPT !["image"] =
                        initImage(frame.width, frame.height, AV_PIX_FMT_RGB24)]
          /\ pc' = IF frame.height > 0 /\ frame.width > 0
                   THEN "load_palette" ELSE "load_cleanup"
          /\ UNCHANGED <<errmsg, failPoint>>
     ELSE /\ errOutput("load_pix_fmt", "")
          /\ UNCHANGED heap
  /\ UNCHANGED saveVars
  /\ UNCHANGED <<verbose, held, released, got_frame, frame, px, py, writes>>

\* lines 102-108: one iteration of the palette loop
load_palette ==
  /\ pc = "load_palette"
  /\ LET palette_index == PaletteIndex(frame, px, py)
     IN /\ heap' = [heap EXCEPT !["image"] =
                      setPixel(frame.data1[palette_index], px, py, @)]
        /\ writes' = [writes EXCEPT ![<<px, py>>] = @ + 1]
  /\ IF px + 1 < frame.width
     THEN /\ px' = px + 1
          /\ UNCHANGED <<py, pc>>
     ELSE /\ px' = 0
          /\ py' = py + 1
          /\ pc' = IF py + 1 < frame.height THEN "load_palette"
                   ELSE "load_cleanup"
  /\ UNCHANGED saveVars
  /\ UNCHANGED <<verbose, errmsg, failPoint, held, released, got_frame, frame>>

\* lines 115-118: avcodec_close, av_free, avformat_close_input, return
load_cleanup ==
  /\ pc = "load_cleanup"
  /\ held' = held \ LoadCleanup
  /\ released' = released \cup LoadCleanup
  /\ pc' = "loaded"
  /\ UNCHANGED saveVars
  /\ UNCHANGED <<verbose, errmsg, failPoint, got_frame, frame, px, py, writes,
                 heap>>

\* ------------------------------------------------------------- saveImage
\* the byte an image of format fmt keeps of the colour <<r, g, b>>
BlackThreshold == 128
ConvertPixel(p, fmt) ==
  LET gray == (p[1] + p[2] + p[3]) \div 3
  IN CASE fmt = AV_PIX_FMT_RGB24 -> p
       [] fmt \in {AV_PIX_FMT_MONOWHITE, AV_PIX_FMT_MONOBLACK} ->
            IF gray < BlackThreshold THEN <<0, 0, 0>> ELSE WHITE
       [] OTHER -> <<gray, gray, gray>>

\* copyImageArea(0, 0, w, h, src, 0, 0, dst): every pixel of the w x h area
\* of src, converted to dst's format, stored at the same position of dst
copyImageArea(w, h, src, dst) ==
  [dst EXCEPT !.data =
     [p \in DOMAIN dst.data |->
        IF p \in Area(w, h) /\ p \in DOMAIN src.data
        THEN ConvertPixel(src.data[p], dst.format)
        ELSE dst.data[p]]]

\* lines 153-167: switch (outputPixFmt); no default case
SwitchOutputDefaultPPM(fmt) ==
  CASE fmt \in {AV_PIX_FMT_Y400A, AV_PIX_FMT_GRAY8} ->
         [outputPixFmt |-> AV_PIX_FMT_GRAY8, output_codec |-> AV_CODEC_ID_PGM]
    [] fmt \in {AV_PIX_FMT_MONOBLACK, AV_PIX_FMT_MONOWHITE} ->
         [outputPixFmt |-> AV_PIX_FMT_MONOWHITE,
          output_codec |-> AV_CODEC_ID_PBM]
    [] OTHER ->
         [outputPixFmt |-> fmt, output_codec |-> AV_CODEC_ID_PPM]
SwitchOutputKeepPolarity(fmt) ==
  CASE fmt = AV_PIX_FMT_RGB24 ->
         [outputPixFmt |-> AV_PIX_FMT_RGB24, output_codec |-> AV_CODEC_ID_PPM]
    [] fmt \in {AV_PIX_FMT_Y400A, AV_PIX_FMT_GRAY8} ->
         [outputPixFmt |-> AV_PIX_FMT_GRAY8, output_codec |-> AV_CODEC_ID_PGM]
    [] fmt \in {AV_PIX_FMT_MONOBLACK, AV_PIX_FMT_MONOWHITE} ->
         [outputPixFmt |-> fmt, output_codec |-> AV_CODEC_ID_PBM]
    [] OTHER ->
         [outputPixFmt |-> fmt, output_codec |-> NoCodec]
SwitchOutput(fmt) ==
  CASE fmt = AV_PIX_FMT_RGB24 ->
         [outputPixFmt |-> AV_PIX_FMT_RGB24, output_codec |-> AV_CODEC_ID_PPM]
    [] fmt \in {AV_PIX_FMT_Y400A, AV_PIX_FMT_GRAY8} ->
         [outputPixFmt |-> AV_PIX_FMT_GRAY8, output_codec |-> AV_CODEC_ID_PGM]
    [] fmt \in {AV_PIX_FMT_MONOBLACK, AV_PIX_FMT_MONOWHITE} ->
         [outputPixFmt |-> AV_PIX_FMT_MONOWHITE,
          output_codec |-> AV_CODEC_ID_PBM]
    [] OTHER ->
         [outputPixFmt |-> fmt, output_codec |-> NoCodec]

\* avcodec_find_encoder(id): whether an encoder is found; none has the id -1
avcodec_find_encoder(id) == IF id = NoCodec THEN {FALSE} ELSE BOOLEAN

\* lines 231-232: if (output != input) av_frame_free(&output)
FreeOutputAlways(h, out) == [h EXCEPT ![out].state = "freed"]
FreeOutput(h, out) ==
  IF out # "image" THEN [h EXCEPT ![out].state = "freed"] ELSE h

\* the handles the tail of saveImage releases (lines 223-229)
SaveCleanupNoAvioClose == {"enc_codec", "codec_ctx", "video_st", "out_ctx"}
SaveCleanup == {"enc_codec", "codec_ctx", "video_st", "pb", "out_ctx"}

\* entry into saveImage(filename, input, fmt): line 128-137
EnterSave(who, fmt) ==
  /\ pc' = "save_guess_format"
  /\ caller' = who
  /\ fmtArg' = fmt
  /\ outputPixFmt' = fmt
  /\ output_codec' = NoCodec
  /\ output' = "image"
  /\ inputAtCall' = heap["image"]
  /\ UNCHANGED <<encoded, wf_ret, written>>
  \* the locals of the finished loadImage are gone; its frame was never freed
  /\ got_frame' = 0
  /\ frame' = EmptyDecoded
  /\ px' = 0
  /\ py' = 0
  /\ writes' = ZeroWrites

\* the pipeline calls saveImage with the requested output format
callSaveImage ==
  /\ pc = "loaded"
  /\ \E fmt \in PixFmts : EnterSave("saveImage", fmt)
  /\ UNCHANGED <<verbose, errmsg, failPoint, held, released, heap>>

\* lines 238-244: saveDebug; the file name sprintf builds from the template
\* and the index is not part of the state
saveDebug ==
  /\ pc = "loaded"
  /\ IF verbose >= VERBOSE_DEBUG_SAVE
     THEN EnterSave("saveDebug", heap["image"].format)
     ELSE /\ pc' = "returned"
          /\ caller' = "saveDebug"
          /\ inputAtCall' = heap["image"]
          /\ UNCHANGED <<fmtArg, outputPixFmt, output_codec, output, encoded,
                         wf_ret, written>>
          /\ got_frame' = 0
          /\ frame' = EmptyDecoded
          /\ px' = 0
          /\ py' = 0
          /\ writes' = ZeroWrites
  /\ UNCHANGED <<verbose, errmsg, failPoint, held, released, heap>>

\* lines 139-143: av_guess_format
save_guess_format ==
  /\ pc = "save_guess_format"
  /\ \E found \in BOOLEAN :
       IF ~found
       THEN errOutput("save_guess_format", "")
       ELSE /\ pc' = "save_alloc_context"
            /\ UNCHANGED <<errmsg, failPoint>>
  /\ UNCHANGED <<verbose, held, released, heap>>
  /\ UNCHANGED loadVars
  /\ UNCHANGED saveVars

\* lines 145-151: avformat_alloc_context
save_alloc_context ==
  /\ pc = "save_alloc_context"
  /\ \E ok \in BOOLEAN :
       IF ~ok
       THEN /\ errOutput("save_alloc_context", "")
            /\ UNCHANGED held
       ELSE /\ pc' = "save_switch"
            /\ held' = held \cup {"out_ctx"}
            /\ UNCHANGED <<errmsg, failPoint>>
  /\ UNCHANGED <<verbose, released, heap>>
  /\ UNCHANGED loadVars
  /\ UNCHANGED saveVars

\* lines 153-167: the switch over outputPixFmt
save_switch ==
  /\ pc = "save_switch"
  /\ outputPixFmt' = SwitchOutput(outputPixFmt).outputPixFmt
  /\ output_codec' = SwitchOutput(outputPixFmt).output_codec
  /\ pc' = "save_convert"
  /\ UNCHANGED <<verbose, errmsg, failPoint, held, released, heap>>
  /\ UNCHANGED loadVars
  /\ UNCHANGED <<caller, fmtArg, output, inputAtCall, encoded, wf_ret, written>>

\* lines 169-172: the converted copy
save_convert ==
  /\ pc = "save_convert"
  /\ LET input == heap["image"]
     IN IF input.format # outputPixFmt
        THEN /\ heap' = [heap EXCEPT !["copy"] =
                           copyImageArea(input.width, input.height, input,
                             initImage(input.width, input.height,
                                       outputPixFmt))]
             /\ output' = "copy"
        ELSE UNCHANGED <<heap, output>>
  /\ pc' = "save_find_encoder"
  /\ UNCHANGED <<verbose, errmsg, failPoint, held, released>>
  /\ UNCHANGED loadVars
  /\ UNCHANGED <<caller, fmtArg, outputPixFmt, output_codec, inputAtCall,
                 encoded, wf_ret, written>>

\* lines 174-177: avcodec_find_encoder
save_find_encoder ==
  /\ pc = "save_find_encoder"
  /\ \E found \in avcodec_find_encoder(output_codec) :
       IF ~found
       THEN errOutput("save_find_encoder", "")
       ELSE /\ pc' = "save_new_stream"
            /\ UNCHANGED <<errmsg, failPoint>>
  /\ UNCHANGED <<verbose, held, released, heap>>
  /\ UNCHANGED loadVars
  /\ UNCHANGED saveVars

\* lines 179-189: avformat_new_stream and the setup of its codec context
save_new_stream ==
  /\ pc = "save_new_stream"
  /\ \E ok \in BOOLEAN :
       IF ~ok
       THEN /\ errOutput("save_new_stream", "")
            /\ UNCHANGED held
       ELSE /\ pc' = "save_codec_open"
            /\ held' = held \cup {"video_st", "codec_ctx"}
            /\ UNCHANGED <<errmsg, failPoint>>
  /\ UNCHANGED <<verbose, released, heap>>
  /\ UNCHANGED loadVars
  /\ UNCHANGED saveVars

\* lines 191-199: avcodec_open2, av_dump_format
save_codec_open ==
  /\ pc = "save_codec_open"
  /\ \E ret \in Rets :
       IF ret < 0
       THEN /\ errOutput("save_codec_open", StrError(ret))
            /\ UNCHANGED held
       ELSE /\ pc' = "save_avio_open"
            /\ held' = held \cup {"enc_codec"}
            /\ UNCHANGED <<errmsg, failPoint>>
  /\ UNCHANGED <<verbose, released, heap>>
  /\ UNCHANGED loadVars
  /\ UNCHANGED saveVars

\* lines 201-203: avio_open
save_avio_open ==
  /\ pc = "save_avio_open"
  /\ \E ret \in Rets :
       IF ret < 0
       THEN /\ errOutput("save_avio_open", "")
            /\ UNCHANGED held
       ELSE /\ pc' = "save_write_header"
            /\ held' = held \cup {"pb"}
            /\ UNCHANGED <<errmsg, failPoint>>
  /\ UNCHANGED <<verbose, released, heap>>
  /\ UNCHANGED loadVars
  /\ UNCHANGED saveVars

\* lines 205-207: avformat_write_header
save_write_header ==
  /\ pc = "save_write_header"
  /\ \E ret \in Rets :
       IF ret < 0
       THEN /\ errOutput("save_write_header", "")
            /\ UNCHANGED written
       ELSE /\ pc' = "save_encode"
            /\ written' = Append(written, "header")
            /\ UNCHANGED <<errmsg, failPoint>>
  /\ UNCHANGED <<verbose, held, released, heap>>
  /\ UNCHANGED loadVars
  /\ UNCHANGED <<caller, fmtArg, outputPixFmt, output_codec, output,
                 inputAtCall, encoded, wf_ret>>

\* lines 209-219: avcodec_encode_video2 of the frame output points to
save_encode ==
  /\ pc = "save_encode"
  /\ \E ret \in Rets :
       IF ret < 0
       THEN /\ errOutput("save_encode", StrError(ret))
            /\ UNCHANGED encoded
       ELSE /\ pc' = "save_write_frame"
            /\ encoded' = heap[output]
            /\ UNCHANGED <<errmsg, failPoint>>
  /\ UNCHANGED <<verbose, held, released, heap>>
  /\ UNCHANGED loadVars
  /\ UNCHANGED <<caller, fmtArg, outputPixFmt, output_codec, output,
                 inputAtCall, wf_ret, written>>

\* line 220: av_write_frame; its return value is dropped
save_write_frame ==
  /\ pc = "save_write_frame"
  /\ \E ret \in Rets :
       /\ wf_ret' = ret
       /\ written' = IF ret < 0 THEN written ELSE Append(written, "packet")
  /\ pc' = "save_write_trailer"
  /\ UNCHANGED <<verbose, errmsg, failPoint, held, released, heap>>
  /\ UNCHANGED loadVars
  /\ UNCHANGED <<caller, fmtArg, outputPixFmt, output_codec, output,
                 inputAtCall, encoded>>

\* lines 222-233: av_write_trailer, the releases, return
save_write_trailer ==
  /\ pc = "save_write_trailer"
  /\ written' = Append(written, "trailer")
  /\ held' = held \ SaveCleanup
  /\ released' = released \cup SaveCleanup
  /\ heap' = FreeOutput(heap, output)
  /\ pc' = "returned"
  /\ UNCHANGED <<verbose, errmsg, failPoint>>
  /\ UNCHANGED loadVars
  /\ UNCHANGED <<caller, fmtArg, outputPixFmt, output_codec, output,
                 inputAtCall, encoded, wf_ret>>

Next ==
  \/ load_alloc
  \/ load_open_input
  \/ load_streams
  \/ load_copy_context
  \/ load_find_decoder
  \/ load_codec_open
  \/ load_read_frame
  \/ load_decode
  \/ load_classify
  \/ load_palette
  \/ load_cleanup
  \/ callSaveImage
  \/ saveDebug
  \/ save_guess_format
  \/ save_alloc_context
  \/ save_switch
  \/ save_convert
  \/ save_find_encoder
  \/ save_new_stream
  \/ save_codec_open
  \/ save_avio_open
  \/ save_write_header
  \/ save_encode
  \/ save_write_frame
  \/ save_write_trailer

Spec == Init /\ [][Next]_vars


\* ------------------------------------------------------------- properties
LoadFailPoints == {"load_alloc", "load_open_input", "load_nb_streams",
                   "load_codec_type", "load_copy_context", "load_find_decoder",
                   "load_codec_open", "load_read_frame", "load_stream_index",
                   "load_decode", "load_pix_fmt"}
SaveFailPoints == {"save_guess_format", "save_alloc_context",
                   "save_find_encoder", "save_new_stream", "save_codec_open",
                   "save_avio_open", "save_write_header", "save_encode"}
LoadContexts == {"avctx", "avctx_codec", "s"}
SaveResources == {"out_ctx", "video_st", "codec_ctx", "enc_codec", "pb"}
Supported == {"RGB24", "GRAY8", "Y400A", "MONOBLACK", "MONOWHITE"}
saveCalled == fmtArg # AV_PIX_FMT_NONE
loadFatal == pc = "fatal" /\ failPoint \in LoadFailPoints
saveFatal == pc = "fatal" /\ failPoint \in SaveFailPoints

\* C1: a saveImage call whose outputPixFmt is none of RGB24, Gray8, Y400A,
\* MonoBlack, MonoWhite never gets past the encoder lookup except into the
\* fatal exit: no codec is chosen, nothing is encoded, nothing is written.
C1_UnsupportedRequestIsFatal ==
  (saveCalled /\ fmtArg \notin Supported) =>
    /\ pc \in {"save_guess_format", "save_alloc_context", "save_switch",
               "save_convert", "save_find_encoder", "fatal"}
    /\ (pc = "fatal" =>
          failPoint \in {"save_guess_format", "save_alloc_context",
                         "save_find_encoder"})
    /\ output_codec = NoCodec
    /\ encoded = NullFrame
    /\ written = <<>>

C1_Witness ==
  /\ fmtArg = "PAL8"
  /\ pc = "fatal"
  /\ failPoint = "save_find_encoder"
  /\ errmsg = <<"output codec not found", "">>

C4_CallerImageUnchanged ==
  caller # "none" =>
    /\ heap["image"] = inputAtCall
    /\ heap["image"].state = "live"
    /\ (heap["copy"].state # "null") <=> (output = "copy")
    /\ (pc = "returned" /\ output = "copy") => heap["copy"].state = "freed"

C4_Witness ==
  /\ pc = "returned"
  /\ caller = "saveImage"
  /\ inputAtCall.format = "RGB24"
  /\ fmtArg = "GRAY8"
  /\ output = "copy"
  /\ heap["copy"].state = "freed"
  /\ heap["image"] = inputAtCall
  /\ inputAtCall.state = "live"
  /\ written = <<"header", "packet", "trailer">>

\* C5: an image that loadImage returned has one of the formats Gray8,
\* GrayAlpha8, RGB24, MonoBlack, MonoWhite; a PAL8 frame gives an RGB24 image
\* of the frame's width and height; a frame of any other format never gives a
\* return; so the image saveImage or saveDebug receives is never PAL8.
C5_NoPaletteLeavesLoad ==
  /\ pc = "loaded" =>
       /\ heap["image"].state = "live"
       /\ heap["image"].format \in
            {"GRAY8", "Y400A", "RGB24", "MONOBLACK", "MONOWHITE"}
       /\ frame.format \in
            {"GRAY8", "Y400A", "RGB24", "MONOBLACK", "MONOWHITE", "PAL8"}
       /\ frame.format = "PAL8" => heap["image"].format = "RGB24"
       /\ frame.format # "PAL8" => heap["image"].format = frame.format
       /\ heap["image"].width = frame.width
       /\ heap["image"].height = frame.height
  /\ failPoint = "load_pix_fmt" => heap["image"].state = "null"
  /\ caller # "none" =>
       inputAtCall.format \in
         {"GRAY8", "Y400A", "RGB24", "MONOBLACK", "MONOWHITE"}

C5_Witness ==
  /\ pc = "loaded"
  /\ frame.format = "PAL8"
  /\ heap["image"].format = "RGB24"
  /\ heap["image"].width = 2
  /\ heap["image"].height = 2

\* C6 (as claimed): a failed packet write ends saveImage in a fatal error; the
\* call does not go on to the trailer and the return.
C6_PacketWriteFailureIsFatal ==
  wf_ret < 0 => (pc = "fatal" /\ "trailer" \notin Range(written))

\* C7 (as claimed): a decode that succeeds without a frame (got_frame = 0)
\* is a fatal read/decode failure: the format switch is never reached with
\* the undecoded frame and the fatal exit is not that of the format switch.
C7_NoFrameIsDecodeFailure ==
  (got_frame = 0 /\ caller = "none") =>
    /\ pc \notin {"load_classify", "load_palette", "load_cleanup", "loaded"}
    /\ failPoint # "load_pix_fmt"

\* C8 (as claimed): the message of each of the four fatal conditions (open
\* failure of a zero-byte file, zero streams, first packet of another stream,
\* decoder error) is none of the messages the other three can print.
C8_DistinctMessages ==
  LET Four == {"load_open_input", "load_nb_streams", "load_stream_index",
               "load_decode"}
  IN (pc = "fatal" /\ failPoint \in Four) =>
       \A other \in Four \ {failPoint} : errmsg \notin Messages(other)

\* C9: for a requested format of the table, the switch leaves the documented
\* normalized format and codec (RGB24: RGB24, PPM; Gray8, GrayAlpha8: Gray8,
\* PGM; MonoBlack, MonoWhite: MonoWhite, PBM); the encoded frame has the
\* normalized format and is the caller's image when that already has it,
\* else a separate frame of the same width and height holding every pixel of
\* the image converted.
C9_FormatTable ==
  LET norm == CASE fmtArg = "RGB24" -> "RGB24"
                [] fmtArg \in {"GRAY8", "Y400A"} -> "GRAY8"
                [] OTHER -> "MONOWHITE"
      codec == CASE fmtArg = "RGB24" -> "PPM"
                 [] fmtArg \in {"GRAY8", "Y400A"} -> "PGM"
                 [] OTHER -> "PBM"
      switched == /\ pc \notin {"save_guess_format", "save_alloc_context",
                                "save_switch"}
                  /\ failPoint \notin {"save_guess_format",
                                       "save_alloc_context"}
  IN (saveCalled /\ fmtArg \in Supported /\ switched) =>
       /\ outputPixFmt = norm
       /\ output_codec = codec
       /\ encoded # NullFrame =>
            /\ encoded.format = norm
            /\ encoded.state = "live"
            /\ encoded.width = inputAtCall.width
            /\ encoded.height = inputAtCall.height
            /\ DOMAIN encoded.data =
                 Area(inputAtCall.width, inputAtCall.height)
            /\ IF inputAtCall.format = norm
               THEN output = "image" /\ encoded = inputAtCall
               ELSE /\ output = "copy"
                    /\ \A p \in DOMAIN encoded.data :
                         encoded.data[p] =
                           ConvertPixel(inputAtCall.data[p], norm)

C9_Witness ==
  /\ pc = "returned"
  /\ fmtArg = "MONOBLACK"
  /\ inputAtCall.format = "GRAY8"
  /\ output_codec = "PBM"
  /\ encoded.format = "MONOWHITE"
  /\ encoded.width = 2
  /\ encoded.height = 2

\* C10: when the palette loop of loadImage has finished on a PAL8 frame of
\* size w x h, the image is RGB24 of size w x h, its pixel (x, y) is the
\* r, g, b of palette[data[0][linesize[0] * y + x]] for every x < w, y < h,
\* each of these positions was written exactly once and no other position
\* was written; during the loop no position is written twice.
C10_PaletteExpansion ==
  /\ \A p \in DOMAIN writes : writes[p] <= 1
  /\ (pc \in {"load_cleanup", "loaded"} /\ frame.format = "PAL8") =>
       LET img == heap["image"]
       IN /\ img.format = "RGB24"
          /\ img.width = frame.width
          /\ img.height = frame.height
          /\ DOMAIN img.data = Area(frame.width, frame.height)
          /\ \A x \in 0..(frame.width - 1), y \in 0..(frame.height - 1) :
               LET entry == frame.data1[frame.data0[frame.linesize * y + x]]
               IN img.data[<<x, y>>] = <<entry[2], entry[3], entry[4]>>
          /\ \A p \in DOMAIN writes :
               writes[p] =
                 IF p \in Area(frame.width, frame.height) THEN 1 ELSE 0

C10_Witness ==
  /\ pc = "loaded"
  /\ frame.format = "PAL8"
  /\ frame.width = 2
  /\ frame.height = 2
  /\ frame.linesize = 3
  /\ frame.data0 = [i \in 0..5 |-> IF i = 1 THEN 255 ELSE 0]
  /\ frame.data1 = PalColor
  /\ heap["image"].data[<<0, 0>>] = <<255, 0, 0>>
  /\ heap["image"].data[<<1, 0>>] = <<0, 127, 255>>
  /\ heap["image"].data[<<0, 1>>] = <<255, 0, 0>>
  /\ heap["image"].data[<<1, 1>>] = <<255, 0, 0>>

====
